---- MODULE Spec2Model ----
(***************************************************************************)
(* neonote: an actix-web item service over a sled key-value store.         *)
(* Strings are sequences of one-character strings, stored values are JSON  *)
(* documents, each worker thread runs one request handler at a time, and   *)
(* the only step of a handler that other workers can interleave with is    *)
(* the gap between db.get and db.insert in update_item.  Worker threads    *)
(* are interchangeable, so the handlers in flight are kept as a bag.       *)
(***************************************************************************)
EXTENDS Integers, Sequences, FiniteSets, Bags, TLC

VARIABLES
    store,      \* the sled Db: key (String) -> stored bytes (a JSON document or garbage)
    api_key,    \* ApiKeyMiddleware.api_key, read once in main
    inflight,   \* the update_item calls between db.get and db.insert, one per busy
                \* worker thread: a bag of their locals (request, fetched bytes, item)
    uuids,      \* number of ids Uuid::new_v4 has handed out
    born,       \* history: id -> the id and created_at assigned when the record was created
    deleted,    \* history: ids whose delete_item has answered 204
    revived,    \* history: ids an update_item wrote back after the record had been removed
    acked,      \* history: the <<id, payload>> of the update_item calls that answered 200
    out         \* the latest handler step: its request and the response it wrote

vars == <<store, api_key, inflight, uuids, born, deleted, revived, acked, out>>

----------------------------------------------------------------------------
(* Bounds *)

NumWorkers == 2
MaxIds == 1


----------------------------------------------------------------------------
(* Option<T> and strings *)

None == <<>>
Some(x) == <<x>>
IsSome(o) == o # <<>>

Alphabet ==
    << "\n", " ", "#", ",", "0", "1", "2", "3", "4", "5", "6", "7", "8", "9",
       "A", "B", "C", "D", "E", "F", "G", "H", "I", "J", "K", "L", "M",
       "N", "O", "P", "Q", "R", "S", "T", "U", "V", "W", "X", "Y", "Z",
       "a", "b", "c", "d", "e", "f", "g", "h", "i", "j", "k", "l", "m",
       "n", "o", "p", "q", "r", "s", "t", "u", "v", "w", "x", "y", "z",
       "0xE9" >>     \* the last one stands for a character outside ASCII

\* http::HeaderValue::to_str accepts visible ASCII only
IsVisibleAscii(c) == c \notin {"\n", "0xE9"}

Rank(c) == CHOOSE i \in 1 .. Len(Alphabet) : Alphabet[i] = c

IsUpper(c) == Rank(c) >= Rank("A") /\ Rank(c) <= Rank("Z")

to_lowercase_char(c) == IF IsUpper(c) THEN Alphabet[Rank(c) + 26] ELSE c

to_lowercase(s) == [i \in 1 .. Len(s) |-> to_lowercase_char(s[i])]

RECURSIVE StrLess(_, _)
StrLess(a, b) ==
    IF b = <<>> THEN FALSE
    ELSE IF a = <<>> THEN TRUE
    ELSE IF a[1] # b[1] THEN Rank(a[1]) < Rank(b[1])
    ELSE StrLess(Tail(a), Tail(b))

IsWhite(c) == c \in {" ", "\n"}

RECURSIVE trim_start(_)
trim_start(s) == IF s # <<>> /\ IsWhite(s[1]) THEN trim_start(Tail(s)) ELSE s

RECURSIVE trim_end(_)
trim_end(s) ==
    IF s # <<>> /\ IsWhite(s[Len(s)]) THEN trim_end(SubSeq(s, 1, Len(s) - 1)) ELSE s

trim(s) == trim_end(trim_start(s))

RECURSIVE split(_, _)
split(s, sep) ==
    IF \E i \in 1 .. Len(s) : s[i] = sep
    THEN LET i == CHOOSE j \in 1 .. Len(s) : s[j] = sep /\ \A k \in 1 .. j - 1 : s[k] # sep
         IN  <<SubSeq(s, 1, i - 1)>> \o split(SubSeq(s, i + 1, Len(s)), sep)
    ELSE <<s>>

Contains(seq, x) == \E i \in 1 .. Len(seq) : seq[i] = x

----------------------------------------------------------------------------
(* JSON documents, as serde_json writes and reads them *)

JNull == [t |-> "null"]
JStr(s) == [t |-> "str", s |-> s]
JNum(n) == [t |-> "num", n |-> n]
JBool(b) == [t |-> "bool", b |-> b]
JArr(a) == [t |-> "arr", a |-> a]
JObj(o) == [t |-> "obj", o |-> o]
Garbage == [t |-> "garbage"]

Has(o, k) == k \in DOMAIN o
IsStrArr(j) == j.t = "arr" /\ \A i \in 1 .. Len(j.a) : j.a[i].t = "str"
IsCodeLocation(j) ==
    /\ j.t = "obj"
    /\ Has(j.o, "file_path") /\ j.o["file_path"].t = "str"
    /\ Has(j.o, "line_number") /\ j.o["line_number"].t = "num"
    /\ j.o["line_number"].n >= 0   \* u32: every number of the model is below 2^32

\* serde: a field of type Option<T> that is missing or null is None
OptOk(o, k, Good(_)) == (~Has(o, k)) \/ o[k].t = "null" \/ Good(o[k])
ReqOk(o, k, Good(_)) == Has(o, k) /\ Good(o[k])
IsStrJ(j) == j.t = "str"
IsNumJ(j) == j.t = "num"
IsBoolJ(j) == j.t = "bool"

OptGet(o, k, Val(_)) == IF Has(o, k) /\ o[k].t # "null" THEN Some(Val(o[k])) ELSE None
StrVal(j) == j.s
NumVal(j) == j.n
BoolVal(j) == j.b
ArrVal(j) == [i \in 1 .. Len(j.a) |-> j.a[i].s]
CodeLocationVal(j) ==
    [file_path |-> j.o["file_path"].s, line_number |-> j.o["line_number"].n]

EncOpt(o, Enc(_)) == IF IsSome(o) THEN Enc(o[1]) ELSE JNull
EncTags(tags) == JArr([i \in 1 .. Len(tags) |-> JStr(tags[i])])
EncCodeLocation(cl) ==
    JObj([file_path |-> JStr(cl.file_path), line_number |-> JNum(cl.line_number)])

\* serde_json::to_vec(&item)
EncodeItem(item) ==
    JObj([ id |-> JStr(item.id),
           type |-> JStr(item.item_type),
           title |-> JStr(item.title),
           content |-> EncOpt(item.content, JStr),
           tags |-> EncTags(item.tags),
           code_location |-> EncOpt(item.code_location, EncCodeLocation),
           created_at |-> JNum(item.created_at),
           completed |-> EncOpt(item.completed, JBool),
           due_date |-> EncOpt(item.due_date, JNum),
           start_time |-> EncOpt(item.start_time, JNum),
           end_time |-> EncOpt(item.end_time, JNum) ])

OptionalFieldsOk(o) ==
    /\ OptOk(o, "content", IsStrJ)
    /\ OptOk(o, "code_location", IsCodeLocation)
    /\ OptOk(o, "completed", IsBoolJ)
    /\ OptOk(o, "due_date", IsNumJ)
    /\ OptOk(o, "start_time", IsNumJ)
    /\ OptOk(o, "end_time", IsNumJ)

\* serde_json::from_slice::<Item>(&value).is_ok()
Decodes(bytes) ==
    /\ bytes.t = "obj"
    /\ ReqOk(bytes.o, "id", IsStrJ)
    /\ ReqOk(bytes.o, "type", IsStrJ)
    /\ ReqOk(bytes.o, "title", IsStrJ)
    /\ ReqOk(bytes.o, "tags", IsStrArr)
    /\ ReqOk(bytes.o, "created_at", IsNumJ)
    /\ OptionalFieldsOk(bytes.o)

\* variant: an empty content string is read as no content
DecodeItemEmptyContentAsNone(bytes) ==
    LET o == bytes.o
        content == OptGet(o, "content", StrVal)
    IN  [ id |-> o["id"].s,
          item_type |-> o["type"].s,
          title |-> o["title"].s,
          content |-> IF content = Some(<<>>) THEN None ELSE content,
          tags |-> ArrVal(o["tags"]),
          code_location |-> OptGet(o, "code_location", CodeLocationVal),
          created_at |-> o["created_at"].n,
          completed |-> OptGet(o, "completed", BoolVal),
          due_date |-> OptGet(o, "due_date", NumVal),
          start_time |-> OptGet(o, "start_time", NumVal),
          end_time |-> OptGet(o, "end_time", NumVal) ]

\* serde_json::from_slice::<Item>(&value), for bytes that decode
DecodeItem(bytes) ==
    LET o == bytes.o
    IN  [ id |-> o["id"].s,
          item_type |-> o["type"].s,
          title |-> o["title"].s,
          content |-> OptGet(o, "content", StrVal),
          tags |-> ArrVal(o["tags"]),
          code_location |-> OptGet(o, "code_location", CodeLocationVal),
          created_at |-> o["created_at"].n,
          completed |-> OptGet(o, "completed", BoolVal),
          due_date |-> OptGet(o, "due_date", NumVal),
          start_time |-> OptGet(o, "start_time", NumVal),
          end_time |-> OptGet(o, "end_time", NumVal) ]

----------------------------------------------------------------------------
(* Request payloads: the web::Json extractors *)

\* web::Json<UpdateItemPayload>: unknown keys (id, created_at) are ignored
DecodeUpdatePayload(body) ==
    LET o == body.o
    IN  [ item_type |-> OptGet(o, "type", StrVal),
          title |-> OptGet(o, "title", StrVal),
          content |-> OptGet(o, "content", StrVal),
          tags |-> OptGet(o, "tags", ArrVal),
          code_location |-> OptGet(o, "code_location", CodeLocationVal),
          completed |-> OptGet(o, "completed", BoolVal),
          due_date |-> OptGet(o, "due_date", NumVal),
          start_time |-> OptGet(o, "start_time", NumVal),
          end_time |-> OptGet(o, "end_time", NumVal) ]

\* web::Json<CreateItemPayload>
DecodeCreatePayload(body) ==
    LET o == body.o
    IN  [ item_type |-> o["type"].s,
          title |-> o["title"].s,
          content |-> OptGet(o, "content", StrVal),
          tags |-> OptGet(o, "tags", ArrVal),
          code_location |-> OptGet(o, "code_location", CodeLocationVal),
          completed |-> OptGet(o, "completed", BoolVal),
          due_date |-> OptGet(o, "due_date", NumVal),
          start_time |-> OptGet(o, "start_time", NumVal),
          end_time |-> OptGet(o, "end_time", NumVal) ]

\* variant: content is assigned from the payload also when the payload has none
UpdateMergeAssigningContent(item, payload) ==
    [ id |-> item.id,
      item_type |-> IF IsSome(payload.item_type) THEN payload.item_type[1] ELSE item.item_type,
      title |-> IF IsSome(payload.title) THEN payload.title[1] ELSE item.title,
      content |-> payload.content,
      tags |-> IF IsSome(payload.tags) THEN payload.tags[1] ELSE item.tags,
      code_location |-> IF IsSome(payload.code_location)
                        THEN Some(payload.code_location[1]) ELSE item.code_location,
      created_at |-> item.created_at,
      completed |-> IF IsSome(payload.completed)
                    THEN Some(payload.completed[1]) ELSE item.completed,
      due_date |-> IF IsSome(payload.due_date) THEN Some(payload.due_date[1]) ELSE item.due_date,
      start_time |-> IF IsSome(payload.start_time)
                     THEN Some(payload.start_time[1]) ELSE item.start_time,
      end_time |-> IF IsSome(payload.end_time) THEN Some(payload.end_time[1]) ELSE item.end_time ]

\* update_item, the merge of the payload into the fetched item
UpdateMerge(item, payload) ==
    [ id |-> item.id,
      item_type |-> IF IsSome(payload.item_type) THEN payload.item_type[1] ELSE item.item_type,
      title |-> IF IsSome(payload.title) THEN payload.title[1] ELSE item.title,
      content |-> IF IsSome(payload.content) THEN Some(payload.content[1]) ELSE item.content,
      tags |-> IF IsSome(payload.tags) THEN payload.tags[1] ELSE item.tags,
      code_location |-> IF IsSome(payload.code_location)
                        THEN Some(payload.code_location[1]) ELSE item.code_location,
      created_at |-> item.created_at,
      completed |-> IF IsSome(payload.completed)
                    THEN Some(payload.completed[1]) ELSE item.completed,
      due_date |-> IF IsSome(payload.due_date) THEN Some(payload.due_date[1]) ELSE item.due_date,
      start_time |-> IF IsSome(payload.start_time)
                     THEN Some(payload.start_time[1]) ELSE item.start_time,
      end_time |-> IF IsSome(payload.end_time) THEN Some(payload.end_time[1]) ELSE item.end_time ]

\* variant: the merge also takes created_at from the request body
ApplyUpdateTakingCreatedAt(item, body) ==
    [UpdateMerge(item, DecodeUpdatePayload(body)) EXCEPT
        !.created_at = IF Has(body.o, "created_at") THEN body.o["created_at"].n ELSE @]

\* variant: an id key of the request body replaces the id of the item
ApplyUpdateTakingId(item, body) ==
    [UpdateMerge(item, DecodeUpdatePayload(body)) EXCEPT
        !.id = IF Has(body.o, "id") THEN body.o["id"].s ELSE @]

\* variant: a null for content in the request body clears the content of the item
ApplyUpdateNullClears(item, body) ==
    [UpdateMerge(item, DecodeUpdatePayload(body)) EXCEPT
        !.content = IF Has(body.o, "content") /\ body.o["content"] = JNull THEN None ELSE @]

\* update_item: the item it will write, from the request body and the fetched item
ApplyUpdate(item, body) == UpdateMerge(item, DecodeUpdatePayload(body))

\* variant: an id key of the request body is taken as the id of the new item
NewItemTakingRequestId(id, created_at, body) ==
    LET payload == DecodeCreatePayload(body)
    IN  [ id |-> IF Has(body.o, "id") /\ body.o["id"].t = "str" THEN body.o["id"].s ELSE id,
          item_type |-> payload.item_type,
          title |-> payload.title,
          content |-> payload.content,
          tags |-> IF IsSome(payload.tags) THEN payload.tags[1] ELSE <<>>,
          code_location |-> payload.code_location,
          created_at |-> created_at,
          completed |-> payload.completed,
          due_date |-> payload.due_date,
          start_time |-> payload.start_time,
          end_time |-> payload.end_time ]

\* create_item: the Item literal
NewItem(id, created_at, body) ==
    LET payload == DecodeCreatePayload(body)
    IN  [ id |-> id,
          item_type |-> payload.item_type,
          title |-> payload.title,
          content |-> payload.content,
          tags |-> IF IsSome(payload.tags) THEN payload.tags[1] ELSE <<>>,
          code_location |-> payload.code_location,
          created_at |-> created_at,
          completed |-> payload.completed,
          due_date |-> payload.due_date,
          start_time |-> payload.start_time,
          end_time |-> payload.end_time ]

----------------------------------------------------------------------------
(* The sled Db *)

EmptyDb == [k \in {} |-> Garbage]

\* variant: the insert leaves only the inserted key in the tree
db_insert_alone(db, k, v) == [x \in {k} |-> v]

db_get(db, k) == IF k \in DOMAIN db THEN Some(db[k]) ELSE None
db_insert(db, k, v) == [x \in DOMAIN db \cup {k} |-> IF x = k THEN v ELSE db[x]]
\* variant: remove reports the old value and leaves the record in place
db_remove_keeping(db, k) == db
db_remove(db, k) == [x \in DOMAIN db \ {k} |-> db[x]]

RECURSIVE SortedKeys(_)
SortedKeys(ks) ==
    IF ks = {} THEN <<>>
    ELSE LET m == CHOOSE k \in ks : \A x \in ks \ {k} : StrLess(k, x)
         IN  <<m>> \o SortedKeys(ks \ {m})

\* db.iter(): the stored values in key order
db_iter(db) == LET ks == SortedKeys(DOMAIN db) IN [i \in 1 .. Len(ks) |-> db[ks[i]]]

DigitChars == <<"1", "2", "3", "4", "5", "6", "7", "8", "9">>

\* Uuid::new_v4().to_string(): the n-th id handed out, different from all others
Uuid(n) == <<"u", DigitChars[n]>>

----------------------------------------------------------------------------
(* Responses *)

Text(s) == [kind |-> "text", text |-> s]
Json(j) == [kind |-> "json", json |-> j]
NoBody == [kind |-> "empty"]
Dropped == [kind |-> "panic"]       \* the handler panicked: no response is written
Pending == [kind |-> "pending"]     \* the handler has not answered yet

Resp(req, status, body) == [req |-> req, status |-> status, body |-> body]

NoReq == [op |-> "none", hdr |-> None, id |-> None, body |-> JNull, query |-> None]
Req(op, hdr, id, body, query) ==
    [op |-> op, hdr |-> hdr, id |-> id, body |-> body, query |-> query]

----------------------------------------------------------------------------
(* ApiKeyMiddlewareMiddleware::call *)

\* header_value.to_str().is_ok()
to_str_ok(value) == \A i \in 1 .. Len(value) : IsVisibleAscii(value[i])

\* TRUE when call hands the request to the wrapped service; hdr is
\* req.headers().get("X-API-Key")
GateForwards(hdr, key) ==
    /\ IsSome(hdr)
    /\ to_str_ok(hdr[1])
    /\ hdr[1] = key

\* a worker thread is free to take a request
IdleWorker == BagCardinality(inflight) < NumWorkers

Unauthorized(req) ==
    /\ IdleWorker
    /\ ~GateForwards(req.hdr, api_key)
    /\ out' = Resp(req, 401, Text("Missing or invalid API key"))
    /\ UNCHANGED <<store, api_key, inflight, uuids, born, deleted, revived, acked>>

----------------------------------------------------------------------------
(* Handlers *)

GetItem(hdr, id, io) ==
    LET req == Req("get", hdr, Some(id), JNull, None)
        got == db_get(store, id)
    IN  /\ IdleWorker
        /\ GateForwards(hdr, api_key)
        /\ out' = IF io = "err"
                  THEN Resp(req, 500, Text("DB error"))
                  ELSE IF got = None
                  THEN Resp(req, 404, Text("Item not found"))
                  ELSE IF Decodes(got[1])
                  THEN Resp(req, 200, Json(EncodeItem(DecodeItem(got[1]))))
                  ELSE Resp(req, 500, Text("Deserialization failed"))
        /\ UNCHANGED <<store, api_key, inflight, uuids, born, deleted, revived, acked>>

CreateItem(hdr, body, now, io) ==
    LET req == Req("create", hdr, None, body, None)
        id == Uuid(uuids + 1)
        item == NewItem(id, now, body)
    IN  /\ IdleWorker
        /\ GateForwards(hdr, api_key)
        /\ uuids < MaxIds
        /\ uuids' = uuids + 1
        /\ IF io = "err"
           THEN /\ out' = Resp(req, 500, Text("Failed to insert"))
                /\ UNCHANGED <<store, born>>
           ELSE /\ store' = db_insert(store, id, EncodeItem(item))
                /\ born' = db_insert(born, id, [id |-> id, created_at |-> now])
                /\ out' = Resp(req, 201, Json(EncodeItem(item)))
        /\ UNCHANGED <<api_key, inflight, deleted, revived, acked>>

\* variant: an id without a record is updated as a new record made from the payload
UpdateGetUpserting(hdr, id, body, io) ==
    LET req == Req("update", hdr, Some(id), body, None)
        got == db_get(store, id)
        blank == NewItem(id, 0, JObj([type |-> JStr(<<>>), title |-> JStr(<<>>)]))
    IN  /\ IdleWorker
        /\ GateForwards(hdr, api_key)
        /\ IF io = "err"
           THEN /\ out' = Resp(req, 500, Text("DB error"))
                /\ UNCHANGED inflight
           ELSE IF got # None /\ ~Decodes(got[1])
           THEN /\ out' = Resp(req, 0, Dropped)
                /\ UNCHANGED inflight
           ELSE /\ inflight' = inflight (+) SetToBag({[req |-> req, got |-> got,
                                     item |-> ApplyUpdate(IF got = None THEN blank
                                                          ELSE DecodeItem(got[1]), body)]})
                /\ out' = Resp(req, 0, Pending)
        /\ UNCHANGED <<store, api_key, uuids, born, deleted, revived, acked>>

\* update_item up to the point where the merged item is ready to be written
UpdateGet(hdr, id, body, io) ==
    LET req == Req("update", hdr, Some(id), body, None)
        got == db_get(store, id)
    IN  /\ IdleWorker
        /\ GateForwards(hdr, api_key)
        /\ IF io = "err"
           THEN /\ out' = Resp(req, 500, Text("DB error"))
                /\ UNCHANGED inflight
           ELSE IF got = None
           THEN /\ out' = Resp(req, 404, Text("Item not found"))
                /\ UNCHANGED inflight
           ELSE IF ~Decodes(got[1])
           THEN \* .unwrap() panics: the connection is dropped without a response
                /\ out' = Resp(req, 0, Dropped)
                /\ UNCHANGED inflight
           ELSE /\ inflight' = inflight (+) SetToBag({[req |-> req, got |-> got,
                                     item |-> ApplyUpdate(DecodeItem(got[1]), body)]})
                /\ out' = Resp(req, 0, Pending)
        /\ UNCHANGED <<store, api_key, uuids, born, deleted, revived, acked>>

\* variant: the payload is merged into the record stored at the time of the write
InsertedItemMergedOnWrite(l) ==
    LET cur == db_get(store, l.req.id[1])
    IN  IF IsSome(cur) /\ Decodes(cur[1]) THEN ApplyUpdate(DecodeItem(cur[1]), l.req.body)
        ELSE l.item

\* update_item: the item that is serialized and inserted
InsertedItem(l) == l.item

\* update_item from serde_json::to_vec to the response
UpdateInsert(l, io) ==
    LET id == l.req.id[1]
        item == InsertedItem(l)
    IN  /\ BagIn(l, inflight)
        /\ inflight' = inflight (-) SetToBag({l})
        /\ IF io = "err"
           THEN /\ out' = Resp(l.req, 500, Text("Update failed"))
                /\ UNCHANGED <<store, revived, acked>>
           ELSE /\ store' = db_insert(store, id, EncodeItem(item))
                /\ revived' = IF id \in DOMAIN store THEN revived ELSE revived \cup {id}
                /\ acked' = acked \cup {<<id, l.req.body>>}
                /\ out' = Resp(l.req, 200, Json(EncodeItem(item)))
        /\ UNCHANGED <<api_key, uuids, born, deleted>>

\* variant: answers 204 for an existing record without removing it
DeleteItemWithoutRemove(hdr, id, io) ==
    LET req == Req("delete", hdr, Some(id), JNull, None)
        old == db_get(store, id)
    IN  /\ IdleWorker
        /\ GateForwards(hdr, api_key)
        /\ IF old = None
           THEN /\ out' = Resp(req, 404, Text("Item not found"))
                /\ UNCHANGED deleted
           ELSE /\ deleted' = deleted \cup {id}
                /\ out' = Resp(req, 204, NoBody)
        /\ UNCHANGED <<store, api_key, inflight, uuids, born, revived, acked>>

DeleteItem(hdr, id, io) ==
    LET req == Req("delete", hdr, Some(id), JNull, None)
        old == db_get(store, id)
    IN  /\ IdleWorker
        /\ GateForwards(hdr, api_key)
        /\ IF io = "err"
           THEN /\ out' = Resp(req, 500, Text("Delete failed"))
                /\ UNCHANGED <<store, deleted>>
           ELSE IF old = None
           THEN /\ out' = Resp(req, 404, Text("Item not found"))
                /\ UNCHANGED <<store, deleted>>
           ELSE /\ store' = db_remove(store, id)
                /\ deleted' = deleted \cup {id}
                /\ out' = Resp(req, 204, NoBody)
        /\ UNCHANGED <<api_key, inflight, uuids, born, revived, acked>>

----------------------------------------------------------------------------
(* capture_item *)

\* text.lines(): split at line feeds, without a final empty line
lines(text) ==
    LET parts == split(text, "\n")
    IN  IF parts[Len(parts)] = <<>> THEN SubSeq(parts, 1, Len(parts) - 1) ELSE parts

RECURSIVE Word(_)
Word(s) == IF s = <<>> \/ IsWhite(s[1]) THEN <<>> ELSE <<s[1]>> \o Word(Tail(s))

RECURSIVE split_whitespace(_)
split_whitespace(s) ==
    IF s = <<>> THEN <<>>
    ELSE IF IsWhite(s[1]) THEN split_whitespace(Tail(s))
    ELSE LET w == Word(s) IN <<w>> \o split_whitespace(SubSeq(s, Len(w) + 1, Len(s)))

RECURSIVE join(_, _)
join(parts, sep) ==
    IF parts = <<>> THEN <<>>
    ELSE IF Len(parts) = 1 THEN parts[1]
    ELSE parts[1] \o sep \o join(Tail(parts), sep)

eq_ignore_ascii_case(a, b) == to_lowercase(a) = to_lowercase(b)

sTodo == <<"t", "o", "d", "o">>
sTask == <<"t", "a", "s", "k">>
sNote == <<"n", "o", "t", "e">>
sEvent == <<"e", "v", "e", "n", "t">>

\* variant: the special tags are compared with ==, letter case included
RECURSIVE ScanWordsCaseSensitive(_, _)
ScanWordsCaseSensitive(ws, acc) ==
    IF ws = <<>> THEN acc
    ELSE LET word == Head(ws)
             tag == Tail(word)
         IN  IF word[1] = "#"
             THEN ScanWordsCaseSensitive(Tail(ws),
                    [ item_type |-> IF tag = sTodo THEN sTask
                                    ELSE IF tag = sNote THEN sNote
                                    ELSE IF tag = sEvent THEN sEvent
                                    ELSE acc.item_type,
                      tags |-> Append(acc.tags, tag),
                      title_parts |-> acc.title_parts ])
             ELSE ScanWordsCaseSensitive(Tail(ws), [acc EXCEPT !.title_parts = Append(@, word)])

\* the loop over first_line.split_whitespace(): item_type, tags and title_parts
\* after the words ws, starting from acc
RECURSIVE ScanWords(_, _)
ScanWords(ws, acc) ==
    IF ws = <<>> THEN acc
    ELSE LET word == Head(ws)
             tag == Tail(word)
         IN  IF word[1] = "#"
             THEN ScanWords(Tail(ws),
                    [ item_type |-> IF eq_ignore_ascii_case(tag, sTodo) THEN sTask
                                    ELSE IF eq_ignore_ascii_case(tag, sNote) THEN sNote
                                    ELSE IF eq_ignore_ascii_case(tag, sEvent) THEN sEvent
                                    ELSE acc.item_type,
                      tags |-> Append(acc.tags, tag),
                      title_parts |-> acc.title_parts ])
             ELSE ScanWords(Tail(ws), [acc EXCEPT !.title_parts = Append(@, word)])

\* variant: content is None when no line follows the first
CapturedItemWithoutEmptyContent(id, created_at, text) ==
    LET ls == lines(text)
        first_line == IF ls = <<>> THEN <<>> ELSE ls[1]
        content == IF Len(ls) <= 1 THEN None ELSE Some(join(Tail(ls), <<"\n">>))
        scan == ScanWords(split_whitespace(first_line),
                          [item_type |-> sNote, tags |-> <<>>, title_parts |-> <<>>])
        title == join(scan.title_parts, <<" ">>)
    IN  [ id |-> id,
          item_type |-> scan.item_type,
          title |-> trim(title),
          content |-> content,
          tags |-> scan.tags,
          code_location |-> None,
          created_at |-> created_at,
          completed |-> None,
          due_date |-> None,
          start_time |-> None,
          end_time |-> None ]

\* capture_item: the Item literal
CapturedItem(id, created_at, text) ==
    LET ls == lines(text)
        first_line == IF ls = <<>> THEN <<>> ELSE ls[1]
        content == Some(join(IF ls = <<>> THEN <<>> ELSE Tail(ls), <<"\n">>))
        scan == ScanWords(split_whitespace(first_line),
                          [item_type |-> sNote, tags |-> <<>>, title_parts |-> <<>>])
        title == join(scan.title_parts, <<" ">>)
    IN  [ id |-> id,
          item_type |-> scan.item_type,
          title |-> trim(title),
          content |-> content,
          tags |-> scan.tags,
          code_location |-> None,
          created_at |-> created_at,
          completed |-> None,
          due_date |-> None,
          start_time |-> None,
          end_time |-> None ]

CaptureItem(hdr, text, now, io) ==
    LET req == Req("capture", hdr, None, JObj([text |-> JStr(text)]), None)
        id == Uuid(uuids + 1)
        item == CapturedItem(id, now, text)
    IN  /\ IdleWorker
        /\ GateForwards(hdr, api_key)
        /\ uuids < MaxIds
        /\ uuids' = uuids + 1
        /\ IF io = "err"
           THEN /\ out' = Resp(req, 500, Text("Failed to insert item"))
                /\ UNCHANGED <<store, born>>
           ELSE /\ store' = db_insert(store, id, EncodeItem(item))
                /\ born' = db_insert(born, id, [id |-> id, created_at |-> now])
                /\ out' = Resp(req, 201, Json(EncodeItem(item)))
        /\ UNCHANGED <<api_key, inflight, deleted, revived, acked>>

----------------------------------------------------------------------------
(* get_filtered_items *)

\* info.get("type").map(|s| s.to_lowercase())
filter_type(query) ==
    IF IsSome(query.type) THEN Some(to_lowercase(query.type[1])) ELSE None

\* info.get("tags").map(|s| s.split(',').map(|tag| tag.trim().to_string()).collect())
filter_tags(query) ==
    IF IsSome(query.tags)
    THEN LET parts == split(query.tags[1], ",")
         IN  Some([i \in 1 .. Len(parts) |-> trim(parts[i])])
    ELSE None

type_match(item, ft) == ft = None \/ ft[1] = item.item_type

\* variant: one requested tag in the item's tags is enough
tags_match_any(item, ftags) ==
    ftags = None \/ \E i \in 1 .. Len(ftags[1]) : Contains(item.tags, ftags[1][i])

tags_match(item, ftags) ==
    ftags = None \/ \A i \in 1 .. Len(ftags[1]) : Contains(item.tags, ftags[1][i])

\* the closure given to filter_map, as a predicate on the stored bytes
Selected(bytes, query) ==
    /\ Decodes(bytes)
    /\ type_match(DecodeItem(bytes), filter_type(query))
    /\ tags_match(DecodeItem(bytes), filter_tags(query))

RECURSIVE FilterMap(_, _)
FilterMap(vals, query) ==
    IF vals = <<>> THEN <<>>
    ELSE (IF Selected(Head(vals), query) THEN <<DecodeItem(Head(vals))>> ELSE <<>>)
         \o FilterMap(Tail(vals), query)

\* the items get_filtered_items collects
FilteredItems(db, query) == FilterMap(db_iter(db), query)

EncItems(items) == JArr([i \in 1 .. Len(items) |-> EncodeItem(items[i])])

Query(type, tags) == [type |-> type, tags |-> tags]

GetFilteredItems(hdr, query) ==
    LET req == Req("filter", hdr, None, JNull, Some(query))
    IN  /\ IdleWorker
        /\ GateForwards(hdr, api_key)
        /\ out' = Resp(req, 200, Json(EncItems(FilteredItems(store, query))))
        /\ UNCHANGED <<store, api_key, inflight, uuids, born, deleted, revived, acked>>

----------------------------------------------------------------------------
(* list_items: a handler main registers no route for; it is the list of all items *)

\* variant: the collection ends at the first value that does not decode
ListedItemsUntilFailure(vals) ==
    LET bad == {i \in 1 .. Len(vals) : ~Decodes(vals[i])}
        n == IF bad = {} THEN Len(vals) ELSE (CHOOSE i \in bad : \A j \in bad : i <= j) - 1
    IN  [i \in 1 .. n |-> DecodeItem(vals[i])]

\* filter_map with serde_json::from_slice(&val).ok() over the values of db.iter()
RECURSIVE ListedItems(_)
ListedItems(vals) ==
    IF vals = <<>> THEN <<>>
    ELSE (IF Decodes(Head(vals)) THEN <<DecodeItem(Head(vals))>> ELSE <<>>)
         \o ListedItems(Tail(vals))

ListItems(hdr) ==
    LET req == Req("list", hdr, None, JNull, None)
    IN  /\ IdleWorker
        /\ GateForwards(hdr, api_key)
        /\ out' = Resp(req, 200, Json(EncItems(ListedItems(db_iter(store)))))
        /\ UNCHANGED <<store, api_key, inflight, uuids, born, deleted, revived, acked>>

----------------------------------------------------------------------------
(* Inputs *)

sSecret == <<"s", "e", "c", "r", "e", "t">>
sWrong == <<"s", "e", "c", "r", "e", "T">>
sTaskCap == <<"T", "a", "s", "k">>
sTaskUp == <<"T", "A", "S", "K">>
sUrgent == <<"u", "r", "g", "e", "n", "t">>
sHome == <<"h", "o", "m", "e">>
sA == <<"a">>
sX == <<"X">>
sFile == <<"m", "a", "i", "n">>

\* the key of a record that was in the database directory before the process started
PreKey == <<"k", "0">>
Uuids == {Uuid(n) : n \in 1 .. MaxIds}
PathIds == {PreKey} \cup Uuids

\* readings of SystemTime::now() in milliseconds
Times == {1, 2}

\* stored bytes that are not an Item: not JSON at all, or JSON without the required keys
CorruptSamples == {Garbage, JObj([id |-> JStr(PreKey)])}

sAccent == <<"s", "0xE9">>

GoodHeader == Some(sSecret)

CreateMin == JObj([type |-> JStr(sTaskCap), title |-> JStr(sA)])
CreateFull ==
    JObj([ type |-> JStr(sTask), title |-> JStr(<<>>), content |-> JStr(<<>>),
           tags |-> JArr(<<JStr(sHome)>>),
           code_location |-> JObj([file_path |-> JStr(sFile), line_number |-> JNum(0)]),
           completed |-> JBool(FALSE), due_date |-> JNum(0),
           start_time |-> JNum(1), end_time |-> JNum(2) ])
CreateBodies == {CreateMin, CreateFull}

\* a patch that also carries the keys id and created_at, and one on another field
PatchTitle == JObj([title |-> JStr(sX), id |-> JStr(sX), created_at |-> JNum(99)])
PatchTags == JObj([tags |-> JArr(<<JStr(sUrgent)>>), content |-> JNull])
Patches == {PatchTitle, PatchTags}

Queries == {Query(None, None)}

\* "a #todo" and a second line "b"
TextTodo == <<"a", " ", "#", "t", "o", "d", "o", "\n", "b">>

\* the requests the gate is shown with a missing or wrong key
GateRequests ==
    { Req("delete", None, Some(Uuid(1)), JNull, None),
      Req("update", Some(sWrong), Some(PreKey), PatchTitle, None) }

----------------------------------------------------------------------------
(* The service under concurrent requests *)

\* the database directory is empty or holds a record that is not an Item
Init ==
    /\ store \in {EmptyDb} \cup {db_insert(EmptyDb, PreKey, c) : c \in CorruptSamples}
    /\ api_key = sSecret
    /\ inflight = EmptyBag
    /\ uuids = 0
    /\ born = EmptyDb
    /\ deleted = {}
    /\ revived = {}
    /\ acked = {}
    /\ out = Resp(NoReq, 0, NoBody)

Next ==
    \/ CreateItem(GoodHeader, CreateMin, 1, "ok")
    \/ CaptureItem(GoodHeader, TextTodo, 2, "ok")
    \/ \E id \in PathIds : UpdateGet(GoodHeader, id, PatchTitle, "ok")
    \/ \E l \in BagToSet(inflight) : UpdateInsert(l, "ok")
    \/ \E id \in PathIds : DeleteItem(GoodHeader, id, "ok")
    \/ \E id \in PathIds : GetItem(GoodHeader, id, "ok")
    \/ GetFilteredItems(GoodHeader, Query(None, None))
    \/ \E req \in GateRequests : Unauthorized(req)

Spec == Init /\ [][Next]_vars

----------------------------------------------------------------------------
(* Overlapping updates with payloads on different fields *)

InitRace == Init /\ store = EmptyDb

NextRace ==
    \/ \E now \in Times : CreateItem(GoodHeader, CreateMin, now, "ok")
    \/ \E id \in Uuids, body \in Patches : UpdateGet(GoodHeader, id, body, "ok")
    \/ \E l \in BagToSet(inflight) : UpdateInsert(l, "ok")

SpecRace == InitRace /\ [][NextRace]_vars

----------------------------------------------------------------------------
(* One update at a time, over a range of payloads *)

OldKey(n) == <<"k", DigitChars[n]>>

PatchKeys ==
    {"type", "title", "content", "tags", "code_location", "completed",
     "due_date", "start_time", "end_time"}

\* a value for each field, different from the values of CreateMin and CreateFull
PatchValue ==
    [ type |-> JStr(sNote), title |-> JStr(sX), content |-> JStr(<<"c">>),
      tags |-> JArr(<<JStr(sUrgent)>>),
      code_location |-> JObj([file_path |-> JStr(sFile), line_number |-> JNum(7)]),
      completed |-> JBool(TRUE), due_date |-> JNum(5),
      start_time |-> JNum(6), end_time |-> JNum(7) ]

PatchOf(K) == JObj([k \in K |-> PatchValue[k]])

\* the empty payload, payloads of one or two fields, the payload with every field,
\* and the payloads with a null or with keys the payload type does not have
PatchSpace ==
    {PatchOf(K) : K \in { {}, {"title"}, {"content"}, {"tags"}, {"completed"},
                          {"type", "code_location"}, {"due_date", "end_time"},
                          {"start_time"}, PatchKeys }}
    \cup Patches

InitUpdate ==
    /\ \E body \in CreateBodies :
         store = db_insert(EmptyDb, OldKey(1), EncodeItem(NewItem(OldKey(1), 1, body)))
    /\ api_key = sSecret
    /\ inflight = EmptyBag
    /\ uuids = 0
    /\ born = EmptyDb
    /\ deleted = {}
    /\ revived = {}
    /\ acked = {}
    /\ out = Resp(NoReq, 0, NoBody)

NextUpdate ==
    \/ /\ inflight = EmptyBag
       /\ \E body \in PatchSpace : UpdateGet(GoodHeader, OldKey(1), body, "ok")
    \/ \E l \in BagToSet(inflight) : UpdateInsert(l, "ok")

SpecUpdate == InitUpdate /\ [][NextUpdate]_vars

----------------------------------------------------------------------------
(* The filter over a range of stores and queries *)

ItemA == NewItem(OldKey(1), 1, JObj([type |-> JStr(sTask), title |-> JStr(sA),
                                     tags |-> JArr(<<JStr(sUrgent), JStr(sHome)>>)]))
ItemB == NewItem(OldKey(2), 1, JObj([type |-> JStr(sTask), title |-> JStr(sA),
                                     tags |-> JArr(<<JStr(sHome)>>)]))
ItemC == NewItem(OldKey(3), 2, JObj([type |-> JStr(sNote), title |-> JStr(sA),
                                     tags |-> JArr(<<JStr(sUrgent)>>)]))
ItemD == NewItem(OldKey(4), 2, CreateMin)
SampleItems == {ItemA, ItemB, ItemC, ItemD}

StoreOf(items, corrupt) ==
    [k \in {i.id : i \in items} \cup {PreKey : c \in corrupt} |->
        IF k = PreKey THEN CHOOSE c \in corrupt : TRUE
        ELSE EncodeItem(CHOOSE i \in items : i.id = k)]

SampleStores ==
    {StoreOf(items, corrupt) : items \in SUBSET SampleItems, corrupt \in {{}, {Garbage}}}

sUrgentCap == <<"U", "r", "g", "e", "n", "t">>
sUrgentHome == sUrgent \o <<",">> \o sHome
sUrgentSpHome == sUrgent \o <<",", " ">> \o sHome
sUrgentComma == sUrgent \o <<",">>

FilterQueries ==
    {Query(type, tags) :
        type \in {None, Some(sTask), Some(sTaskCap), Some(sTaskUp), Some(sNote)},
        tags \in {None, Some(<<>>), Some(sUrgent), Some(sHome), Some(sUrgentHome),
                  Some(sUrgentSpHome), Some(sUrgentCap), Some(sUrgentComma)}}

InitFilter ==
    /\ store \in SampleStores
    /\ api_key = sSecret
    /\ inflight = EmptyBag
    /\ uuids = 0
    /\ born = EmptyDb
    /\ deleted = {}
    /\ revived = {}
    /\ acked = {}
    /\ out = Resp(NoReq, 0, NoBody)

NextFilter == \E query \in FilterQueries : GetFilteredItems(GoodHeader, query)

SpecFilter == InitFilter /\ [][NextFilter]_vars

----------------------------------------------------------------------------
(* The gate over a range of configured secrets and X-API-Key headers *)

\* API_KEY is any string of the environment; "secret" when it is not set
ApiKeys == {sSecret, sAccent}

\* the X-API-Key header is absent or holds these bytes
GateHeaders == {None, Some(<<>>), Some(sSecret), Some(sWrong), Some(sAccent)}

\* one request per route, aimed at the id k1
RoutedRequests(hdr) ==
    { Req("get", hdr, Some(OldKey(1)), JNull, None),
      Req("update", hdr, Some(OldKey(1)), PatchTitle, None),
      Req("delete", hdr, Some(OldKey(1)), JNull, None),
      Req("create", hdr, None, CreateMin, None),
      Req("capture", hdr, None, JObj([text |-> JStr(TextTodo)]), None),
      Req("filter", hdr, None, JNull, Some(Query(None, None))) }

\* the id k1 is stored or not
InitGate ==
    /\ store \in {EmptyDb, StoreOf({ItemA}, {})}
    /\ api_key \in ApiKeys
    /\ inflight = EmptyBag
    /\ uuids = 0
    /\ born = EmptyDb
    /\ deleted = {}
    /\ revived = {}
    /\ acked = {}
    /\ out = Resp(NoReq, 0, NoBody)

NextGate ==
    \/ \E hdr \in GateHeaders :
         \/ \E req \in RoutedRequests(hdr) : Unauthorized(req)
         \/ GetItem(hdr, OldKey(1), "ok")
         \/ UpdateGet(hdr, OldKey(1), PatchTitle, "ok")
         \/ DeleteItem(hdr, OldKey(1), "ok")
         \/ CreateItem(hdr, CreateMin, 1, "ok")
         \/ CaptureItem(hdr, TextTodo, 2, "ok")
         \/ GetFilteredItems(hdr, Query(None, None))
    \/ \E l \in BagToSet(inflight) : UpdateInsert(l, "ok")

SpecGate == InitGate /\ [][NextGate]_vars

----------------------------------------------------------------------------
(* create_item over a range of payloads, with stored records and failing inserts *)

\* a payload that carries the keys id and created_at and a null for tags
CreateWithId ==
    JObj([ type |-> JStr(sNote), title |-> JStr(sA), id |-> JStr(OldKey(1)),
           created_at |-> JNum(0), tags |-> JNull, content |-> JNull ])
CreatePayloads == CreateBodies \cup {CreateWithId}

InitCreate ==
    /\ store \in {StoreOf(items, corrupt) :
                   items \in {{}, {ItemA}, {ItemA, ItemB}}, corrupt \in {{}, {Garbage}}}
    /\ api_key = sSecret
    /\ inflight = EmptyBag
    /\ uuids = 0
    /\ born = EmptyDb
    /\ deleted = {}
    /\ revived = {}
    /\ acked = {}
    /\ out = Resp(NoReq, 0, NoBody)

NextCreate ==
    \/ \E body \in CreatePayloads, now \in Times, io \in {"ok", "err"} :
         CreateItem(GoodHeader, body, now, io)
    \/ \E id \in {OldKey(1)} \cup Uuids : GetItem(GoodHeader, id, "ok")

SpecCreate == InitCreate /\ [][NextCreate]_vars

----------------------------------------------------------------------------
(* Listing stores that hold any number of records that are not Items *)

\* n records that do not decode, under keys before and after those of the items
CorruptRecords(n) ==
    LET ks == <<PreKey, OldKey(5), OldKey(6)>>
        vs == <<Garbage, JObj([id |-> JStr(OldKey(5))]), JObj([title |-> JNull])>>
    IN  [k \in {ks[i] : i \in 1 .. n} |-> vs[CHOOSE i \in 1 .. n : ks[i] = k]]

ListStores ==
    {StoreOf(items, {}) @@ CorruptRecords(n) : items \in SUBSET SampleItems, n \in 0 .. 3}

InitList ==
    /\ store \in ListStores
    /\ api_key = sSecret
    /\ inflight = EmptyBag
    /\ uuids = 0
    /\ born = EmptyDb
    /\ deleted = {}
    /\ revived = {}
    /\ acked = {}
    /\ out = Resp(NoReq, 0, NoBody)

NextList ==
    \/ ListItems(GoodHeader)
    \/ GetFilteredItems(GoodHeader, Query(None, None))

SpecList == InitList /\ [][NextList]_vars

----------------------------------------------------------------------------
(* get_item on present, absent and undecodable records, with the store read
   succeeding or failing *)

NextGet ==
    \E id \in {PreKey, OldKey(1)}, io \in {"ok", "err"} : GetItem(GoodHeader, id, io)

SpecGet == InitList /\ [][NextGet]_vars

----------------------------------------------------------------------------
(* capture_item over a range of texts *)

\* words of a first line: plain words, the special tags in several letter cases,
\* other tags, a lone "#" and a tag that itself starts with "#"
CaptureWords ==
    { <<"a">>, <<"t", "o", "d", "o">>, <<"#", "t", "o", "d", "o">>, <<"#", "N", "o", "t", "e">>, <<"#", "E", "V", "E", "N", "T">>, <<"#", "x">>, <<"#">>, <<"#", "#", "t", "o", "d", "o">> }

\* first lines of no, one and two words (the second a plain word, a tag or a lone "#")
CaptureHeaders ==
    {<<>>} \cup CaptureWords \cup
    {a \o <<" ">> \o b : a \in CaptureWords,
                          b \in {w \in CaptureWords : Len(w) = 1 \/ w[2] \notin {"#", "o"}}}

TextTwoSpecial == <<"#", "t", "o", "d", "o", " ", "a", " ", "#", "E", "V", "E", "N", "T", " ", "b", " ", "#", "N", "o", "t", "e", "\n", "b", " ", "c">>
TextDupTags == <<"#", "x", " ", "a", " ", "#", "X", " ", "#", "x", " ", " ", "b", "\n", "b", "\n", "\n", "c", "\n">>
TextSpaces == <<" ", " ", "a", " ", " ", " ", "#", "x", " ", " ">>

\* texts of one line, and texts with more lines, blank lines and runs of blanks
CaptureTexts ==
    CaptureHeaders \cup
    { TextTwoSpecial, TextDupTags, TextSpaces, <<"a", "\n">>, <<"\n">>, <<"\n", "b">>, <<"a", "\n", "b", " ", "#", "t", "o", "d", "o">>, <<"\n", "\n">> }

NextCapture ==
    \E text \in CaptureTexts, io \in {"ok", "err"} : CaptureItem(GoodHeader, text, 1, io)

\* the store is empty or holds one item
InitCapture == InitGate /\ api_key = sSecret

SpecCapture == InitCapture /\ [][NextCapture]_vars

----------------------------------------------------------------------------
(* update_item aimed at ids without a record, over a range of payloads, next to
   updates and deletes of stored records *)

MissingIds == {OldKey(1), OldKey(2), OldKey(3)}

NextMissing ==
    \/ \E id \in MissingIds \ DOMAIN store, body \in PatchSpace :
         UpdateGet(GoodHeader, id, body, "ok")
    \/ \E id \in MissingIds : UpdateGet(GoodHeader, id, PatchTitle, "ok")
    \/ \E l \in BagToSet(inflight) : UpdateInsert(l, "ok")
    \/ \E id \in MissingIds : DeleteItem(GoodHeader, id, "ok")

SpecMissing == InitCreate /\ [][NextMissing]_vars

----------------------------------------------------------------------------
(* The Item codec: a stored encoding of each of a range of Items is decoded and
   encoded again by get_item and by update_item with an empty payload *)

\* Items with each Option field absent, present with an empty, false or zero
\* value, or present with another value
CodecItems ==
    [ id : {OldKey(1)},
      item_type : {sNote},
      title : {<<>>},
      content : {None, Some(<<>>), Some(sA)},
      tags : {<<>>, <<(<<>>)>>, <<sHome, sHome>>},
      code_location : {None, Some([file_path |-> <<>>, line_number |-> 0])},
      created_at : {0},
      completed : {None, Some(FALSE), Some(TRUE)},
      due_date : {None, Some(0)},
      start_time : {None, Some(0)},
      end_time : {None, Some(-1)} ]

InitCodec ==
    /\ \E item \in CodecItems : store = db_insert(EmptyDb, OldKey(1), EncodeItem(item))
    /\ api_key = sSecret
    /\ inflight = EmptyBag
    /\ uuids = 0
    /\ born = EmptyDb
    /\ deleted = {}
    /\ revived = {}
    /\ acked = {}
    /\ out = Resp(NoReq, 0, NoBody)

NextCodec ==
    \/ GetItem(GoodHeader, OldKey(1), "ok")
    \/ /\ inflight = EmptyBag
       /\ UpdateGet(GoodHeader, OldKey(1), PatchOf({}), "ok")
    \/ \E l \in BagToSet(inflight) : UpdateInsert(l, "ok")

SpecCodec == InitCodec /\ [][NextCodec]_vars

----------------------------------------------------------------------------
(* Every handler, with store operations that succeed or fail, on stores that
   hold other records *)

\* the path ids: one with a record at start in some stores, one without
FrameIds == {OldKey(1), OldKey(3)}

InitFrame ==
    /\ store \in {EmptyDb, StoreOf({ItemA, ItemB}, {}), StoreOf({ItemA, ItemB}, {Garbage})}
    /\ api_key = sSecret
    /\ inflight = EmptyBag
    /\ uuids = 0
    /\ born = EmptyDb
    /\ deleted = {}
    /\ revived = {}
    /\ acked = {}
    /\ out = Resp(NoReq, 0, NoBody)

NextFrame ==
    \/ \E io \in {"ok", "err"} :
         \/ CreateItem(GoodHeader, CreateMin, 1, io)
         \/ CaptureItem(GoodHeader, TextTodo, 2, io)
         \/ \E id \in FrameIds : UpdateGet(GoodHeader, id, PatchTitle, io)
         \/ \E l \in BagToSet(inflight) : UpdateInsert(l, io)
         \/ \E id \in FrameIds : DeleteItem(GoodHeader, id, io)
         \/ \E id \in FrameIds : GetItem(GoodHeader, id, io)
    \/ GetFilteredItems(GoodHeader, Query(None, None))
    \/ ListItems(GoodHeader)
    \/ \E req \in GateRequests : Unauthorized(req)

SpecFrame == InitFrame /\ [][NextFrame]_vars

----------------------------------------------------------------------------
(* Properties of the service under concurrent requests (Spec, SpecRace) *)

\* o is the outcome of the handler op (the gate let the request through)
Ran(o, op) == o.req.op = op /\ o.status # 401

OutId == out.req.id[1]

\* the keys of the Option fields of Item
OptionalKeys ==
    {"content", "code_location", "completed", "due_date", "start_time", "end_time"}

\* C2 Immutable fields: every record stored under an id that create_item or
\* capture_item assigned still carries that id and the created_at assigned at
\* creation, whatever requests have run and however they interleaved.
ImmutableFields ==
    \A k \in DOMAIN store \cap DOMAIN born :
        /\ Decodes(store[k])
        /\ DecodeItem(store[k]).id = born[k].id
        /\ DecodeItem(store[k]).created_at = born[k].created_at

\* an update whose payload carries the keys id and created_at has been written
ImmutableFieldsWitness ==
    /\ Ran(out, "update") /\ out.status = 200
    /\ Has(out.req.body.o, "id") /\ Has(out.req.body.o, "created_at")
    /\ out.req.body.o["created_at"].n # born[OutId].created_at
    /\ OutId \in DOMAIN store
    /\ DecodeItem(store[OutId]).title = sX

\* C3 Delete then get: a get that directly follows a successful delete of the
\* same id answers 404, and a delete of an id that is not stored answers 404
\* and leaves the store as it is.
DeleteThenGet ==
    [][ /\ ( /\ Ran(out, "delete") /\ out.status = 204
             /\ Ran(out', "get") /\ out'.req.id = out.req.id )
           => out'.status = 404
        /\ ( /\ Ran(out', "delete")
             /\ out'.req.id[1] \notin DOMAIN store )
           => (out'.status = 404 /\ store' = store) ]_vars

\* a get of a deleted id has answered 404
DeleteThenGetWitness ==
    /\ Ran(out, "get") /\ out.status = 404
    /\ OutId \in deleted

\* C4 as stated: once a delete of an id has answered 204, every later delete
\* of that id answers 404, in every interleaving.
SecondDeleteAlwaysNotFound ==
    [][ (Ran(out', "delete") /\ out'.req.id[1] \in deleted) => out'.status = 404 ]_vars

\* C4 amended: once a delete of an id has answered 204, every later delete of
\* that id answers 404 unless an update that had read the record before the
\* delete has written it back.
SecondDeleteNotFoundUnlessRevived ==
    [][ ( /\ Ran(out', "delete")
          /\ out'.req.id[1] \in deleted
          /\ out'.req.id[1] \notin revived )
        => out'.status = 404 ]_vars

\* a second delete of an id has answered 404
SecondDeleteWitness ==
    /\ Ran(out, "delete") /\ out.status = 404
    /\ OutId \in deleted /\ OutId \notin revived

\* C5 Non-atomic update: the write of an update stores the merge of its payload
\* into the record it read and answers 200, whatever is stored at the time of
\* the write; so a change written in between by an overlapping update is lost.
UpdateWritesWhatItRead ==
    [][ \A l \in BagToSet(inflight) :
          (inflight' = inflight (-) SetToBag({l}))
          => LET id == l.req.id[1]
             IN  /\ out'.status = 200
                 /\ id \in DOMAIN store'
                 /\ DecodeItem(store'[id]) = ApplyUpdate(DecodeItem(l.got[1]), l.req.body) ]_vars

\* two updates of a record that was never deleted, one of the title only and one
\* of the tags only, have both answered 200, and the stored record has the
\* tags of the last one and not the title of the other
LostUpdateWitness ==
    /\ Ran(out, "update") /\ out.status = 200 /\ out.req.body = PatchTags
    /\ OutId \notin deleted
    /\ <<OutId, PatchTitle>> \in acked /\ <<OutId, PatchTags>> \in acked
    /\ DecodeItem(store[OutId]).title # sX
    /\ DecodeItem(store[OutId]).tags = <<sUrgent>>

\* C6 as stated: an update of a record that does not decode answers 404 and
\* leaves the stored bytes as they are.
UpdateOfCorruptIsNotFound ==
    ( /\ Ran(out, "update")
      /\ OutId \in DOMAIN store /\ ~Decodes(store[OutId]) )
    => out.status = 404

----------------------------------------------------------------------------
(* Properties of update_item over the payload range (SpecUpdate) *)

\* C1 Partial update merge: when an update writes and the stored record is
\* still the one it read, it answers 200 with the record it stored, and in
\* that record every field the payload gives has the payload's value and every
\* other field has the value it had before.
PartialUpdateMerge ==
    [][ \A l \in BagToSet(inflight) :
          ( /\ inflight' = inflight (-) SetToBag({l})
            /\ db_get(store, l.req.id[1]) = l.got )
          => LET id == l.req.id[1]
                 o == l.req.body.o
                 given(k) == Has(o, k) /\ o[k].t # "null"
                 before == DecodeItem(l.got[1])
                 after == DecodeItem(store'[id])
             IN  /\ out'.status = 200
                 /\ Decodes(store'[id])
                 /\ DecodeItem(out'.body.json) = after
                 /\ after.item_type = IF given("type") THEN o["type"].s ELSE before.item_type
                 /\ after.title = IF given("title") THEN o["title"].s ELSE before.title
                 /\ after.content =
                      IF given("content") THEN Some(o["content"].s) ELSE before.content
                 /\ after.tags = IF given("tags") THEN ArrVal(o["tags"]) ELSE before.tags
                 /\ after.code_location =
                      IF given("code_location") THEN Some(CodeLocationVal(o["code_location"]))
                      ELSE before.code_location
                 /\ after.completed =
                      IF given("completed") THEN Some(o["completed"].b) ELSE before.completed
                 /\ after.due_date =
                      IF given("due_date") THEN Some(o["due_date"].n) ELSE before.due_date
                 /\ after.start_time =
                      IF given("start_time") THEN Some(o["start_time"].n) ELSE before.start_time
                 /\ after.end_time =
                      IF given("end_time") THEN Some(o["end_time"].n) ELSE before.end_time ]_vars

\* a payload with only a title has been merged into a record whose optional
\* fields are present with empty, false and zero values
PartialUpdateMergeWitness ==
    /\ Ran(out, "update") /\ out.status = 200
    /\ out.req.body = PatchOf({"title"})
    /\ LET item == DecodeItem(store[OutId])
       IN  /\ item.title = sX
           /\ item.content = Some(<<>>)
           /\ item.tags = <<sHome>>
           /\ item.completed = Some(FALSE)
           /\ item.due_date = Some(0)

\* C19 A patch can set but never clear an optional field: no step of a run of
\* updates that follow one another takes content, code_location, completed,
\* due_date, start_time or end_time of a stored record from present to absent.
OptionalFieldsStayPresent ==
    [][ \A id \in DOMAIN store \cap DOMAIN store' : \A k \in OptionalKeys :
          IsSome(DecodeItem(store[id])[k]) => IsSome(DecodeItem(store'[id])[k]) ]_vars

\* a payload with a null for content has been merged into a record whose content
\* is present and empty, and the content is still present
OptionalFieldsStayPresentWitness ==
    /\ Ran(out, "update") /\ out.status = 200
    /\ out.req.body = PatchTags
    /\ DecodeItem(store[OutId]).content = Some(<<>>)
    /\ DecodeItem(store[OutId]).tags = <<sUrgent>>

----------------------------------------------------------------------------
(* Properties of get_filtered_items (SpecFilter) *)

OutQuery == out.req.query[1]
Returned == LET a == out.body.json.a IN [i \in 1 .. Len(a) |-> DecodeItem(a[i])]
ReturnedSet == {Returned[i] : i \in 1 .. Len(Returned)}
StoredItems == {DecodeItem(store[k]) : k \in {x \in DOMAIN store : Decodes(store[x])}}
TagSet(item) == {item.tags[i] : i \in 1 .. Len(item.tags)}

\* C7 as stated: with a type filter T and no tag filter, the filter returns the
\* stored items whose type equals T ignoring letter case, and no others.
TypeFilterIgnoresCase ==
    (Ran(out, "filter") /\ IsSome(OutQuery.type) /\ OutQuery.tags = None)
    => ReturnedSet =
         {i \in StoredItems : to_lowercase(i.item_type) = to_lowercase(OutQuery.type[1])}

\* C8 Filter conjunction over tags: with a non-empty tag filter and no type
\* filter the filter returns, each once, exactly the stored items that decode
\* and whose tags contain every requested tag (the comma-separated parts of the
\* parameter, trimmed) as the same string; with a type and a tag filter it
\* returns the items of the type-only filter that the tag-only filter returns
\* too; for A, B, C and type=task, tags=urgent it returns A alone.
FilterConjunction ==
    Ran(out, "filter") =>
        LET q == OutQuery
            parts == split(q.tags[1], ",")
            wanted == {trim(parts[i]) : i \in 1 .. Len(parts)}
            typeOnly == FilteredItems(store, Query(q.type, None))
            tagOnly == FilteredItems(store, Query(None, q.tags))
            InTagOnly(x) == \E j \in 1 .. Len(tagOnly) : tagOnly[j] = x
        IN  /\ (IsSome(q.tags) /\ q.tags[1] # <<>> /\ q.type = None)
               => /\ ReturnedSet = {i \in StoredItems : wanted \subseteq TagSet(i)}
                  /\ Len(Returned) = Cardinality(ReturnedSet)
            /\ (IsSome(q.tags) /\ IsSome(q.type))
               => Returned = SelectSeq(typeOnly, InTagOnly)
            /\ (store = StoreOf({ItemA, ItemB, ItemC}, {}) /\ q = Query(Some(sTask), Some(sUrgent)))
               => Returned = <<ItemA>>

\* the filter type=task, tags=urgent has answered over the store of A, B and C
FilterConjunctionWitness ==
    /\ Ran(out, "filter")
    /\ store = StoreOf({ItemA, ItemB, ItemC}, {})
    /\ OutQuery = Query(Some(sTask), Some(sUrgent))
    /\ Returned = <<ItemA>>

\* C9 as stated: a filter whose tags parameter is the empty string, with no
\* type filter, returns every stored item that decodes.
EmptyTagFilterMatchesAll ==
    (Ran(out, "filter") /\ OutQuery.type = None /\ OutQuery.tags = Some(<<>>))
    => ReturnedSet = StoredItems

----------------------------------------------------------------------------
(* Properties of the gate (SpecGate) *)

\* C10 as stated: a request whose X-API-Key header is absent or differs from
\* the configured secret gets the one unauthorized response, whatever it aims
\* at, and changes nothing; a request whose header equals the configured
\* secret is handed to its handler.
AccessGate ==
    [][ LET hdr == out'.req.hdr
            matching == IsSome(hdr) /\ hdr[1] = api_key
        IN  /\ ~matching
               => /\ out' = Resp(out'.req, 401, Text("Missing or invalid API key"))
                  /\ UNCHANGED <<store, inflight, uuids, born, deleted, revived, acked>>
            /\ matching => out'.status # 401 ]_vars

\* C12 Store key equals id: in every reachable state, every record of the store
\* other than the one the process found at start decodes as an Item whose id
\* field is the key it is stored under, whatever create, capture, update and
\* delete requests have run and however they interleaved.
StoreKeyIsId ==
    \A k \in DOMAIN store :
        \/ k = PreKey /\ store[k] \in CorruptSamples
        \/ Decodes(store[k]) /\ DecodeItem(store[k]).id = k

\* an update whose payload carries an id key wrote a record back after its
\* delete, and the record is stored under the key that is its id
StoreKeyIsIdWitness ==
    /\ Ran(out, "update") /\ out.status = 200
    /\ Has(out.req.body.o, "id")
    /\ OutId \in revived \cap DOMAIN store
    /\ DecodeItem(store[OutId]).id = OutId

----------------------------------------------------------------------------
(* Properties of the list of all items (SpecList) *)

DecodableKeys == {k \in DOMAIN store : Decodes(store[k])}

\* C13 List degrades gracefully: the list of all items, and the filter without
\* type and tags, answer 200 with the items of exactly the stored records that
\* decode, one entry per such record, whatever the store holds and however
\* many of its records do not decode.
ListSkipsUndecodable ==
    (Ran(out, "list") \/ (Ran(out, "filter") /\ OutQuery = Query(None, None))) =>
        /\ out.status = 200
        /\ Len(Returned) = Cardinality(DecodableKeys)
        /\ \A k \in DecodableKeys :
              Cardinality({i \in 1 .. Len(Returned) : Returned[i] = DecodeItem(store[k])}) = 1

\* a store with two items and three records that do not decode was listed
ListSkipsUndecodableWitness ==
    /\ Ran(out, "list")
    /\ Cardinality(DOMAIN store \ DecodableKeys) = 3
    /\ Len(Returned) = 2

----------------------------------------------------------------------------
(* Properties of get_item (SpecGet) *)

\* the branch of get_item that answered: the item, or the text of the error
GetOutcome(o) == IF o.body.kind = "json" THEN "item" ELSE o.body.text

\* C14 as stated: two gets that end in different outcomes (the item, not found,
\* a record that does not decode, a failed store read) answer with different
\* statuses.
DistinctErrorStatuses ==
    [][ (Ran(out, "get") /\ Ran(out', "get") /\ GetOutcome(out) # GetOutcome(out'))
        => out.status # out'.status ]_vars

----------------------------------------------------------------------------
(* Properties of capture_item (SpecCapture) *)

CaptureText(o) == o.req.body.o["text"].s
LineFeeds(text) == {i \in 1 .. Len(text) : text[i] = "\n"}
FirstLineFeed(text) == CHOOSE i \in LineFeeds(text) : \A j \in LineFeeds(text) : i <= j
\* the text before the first line feed, and the text after it without one
\* closing line feed
HeaderLine(text) ==
    IF LineFeeds(text) = {} THEN text ELSE SubSeq(text, 1, FirstLineFeed(text) - 1)
BodyLines(text) ==
    LET r == IF LineFeeds(text) = {} THEN <<>>
             ELSE SubSeq(text, FirstLineFeed(text) + 1, Len(text))
    IN  IF r # <<>> /\ r[Len(r)] = "\n" THEN SubSeq(r, 1, Len(r) - 1) ELSE r
HeaderTokens(o) == split_whitespace(HeaderLine(CaptureText(o)))
IsTagToken(t) == t[1] = "#"
IsPlainToken(t) == t[1] # "#"

\* C15 Capture type rule: a capture answered 201 returns and stores an item whose
\* type comes from the last token of the first line that is "#" followed by todo,
\* note or event in any letter case (todo gives task), and is note when the first
\* line has no such token.
CaptureTypeRule ==
    (Ran(out, "capture") /\ out.status = 201) =>
        LET toks == HeaderTokens(out)
            special == {i \in 1 .. Len(toks) :
                          /\ IsTagToken(toks[i])
                          /\ to_lowercase(Tail(toks[i])) \in {sTodo, sNote, sEvent}}
            last == CHOOSE i \in special : \A j \in special : j <= i
            expected == IF special = {} THEN sNote
                        ELSE IF to_lowercase(Tail(toks[last])) = sTodo THEN sTask
                        ELSE to_lowercase(Tail(toks[last]))
            id == out.body.json.o["id"].s
        IN  /\ out.body.json.o["type"] = JStr(expected)
            /\ DecodeItem(store[id]).item_type = expected

\* the text "#todo a #EVENT b #Note" was captured as a note
CaptureTypeRuleWitness ==
    /\ Ran(out, "capture") /\ out.status = 201
    /\ CaptureText(out) = TextTwoSpecial
    /\ out.body.json.o["type"] = JStr(sNote)

\* C16 Capture title, tags and content: a capture answered 201 returns an item
\* whose tags are the first-line tokens that start with "#", without that "#", in
\* order; whose title is the other first-line tokens joined by one blank; whose
\* content is the text after the first line; whose code_location, completed,
\* due_date, start_time and end_time are null; and the store after the step is the
\* store before plus this item under its id, which was not a key before.
CaptureFields ==
    [][ (Ran(out', "capture") /\ out'.status = 201) =>
            LET text == CaptureText(out')
                toks == HeaderTokens(out')
                tagToks == SelectSeq(toks, IsTagToken)
                rec == out'.body.json.o
                id == rec["id"].s
            IN  /\ rec["tags"] = JArr([i \in 1 .. Len(tagToks) |-> JStr(Tail(tagToks[i]))])
                /\ rec["title"] = JStr(join(SelectSeq(toks, IsPlainToken), <<" ">>))
                /\ rec["content"] = JStr(BodyLines(text))
                /\ \A k \in OptionalKeys \ {"content"} : rec[k] = JNull
                /\ id \notin DOMAIN store
                /\ DOMAIN store' = DOMAIN store \cup {id}
                /\ store'[id] = out'.body.json
                /\ \A k \in DOMAIN store : store'[k] = store[k] ]_vars

\* a text with a repeated tag, a run of blanks and a blank line was captured
CaptureFieldsWitness ==
    /\ Ran(out, "capture") /\ out.status = 201
    /\ CaptureText(out) = TextDupTags
    /\ out.body.json.o["tags"] = JArr(<<JStr(<<"x">>), JStr(<<"X">>), JStr(<<"x">>)>>)
    /\ out.body.json.o["content"] = JStr(<<"b", "\n", "\n", "c">>)
    /\ OldKey(1) \in DOMAIN store

----------------------------------------------------------------------------
(* Properties of update_item on ids without a record (SpecMissing) *)

\* C17 Update of an unknown id: an update request that arrives for an id that is
\* no key of the store is answered 404 whatever its payload, and the step changes
\* neither the store nor the updates in flight, so no record is created under
\* that id then or later.  (A step that takes no update out of flight is the
\* arrival of a request.)
UpdateOfUnknownId ==
    [][ ( /\ Ran(out', "update")
          /\ out'.req.id[1] \notin DOMAIN store
          /\ BagCardinality(inflight') >= BagCardinality(inflight) )
        => ( /\ out'.status = 404
             /\ store' = store
             /\ inflight' = inflight ) ]_vars

\* an update with every field in its payload, for an id whose record had been
\* deleted, was answered 404 and the id is still no key of the store
UpdateOfUnknownIdWitness ==
    /\ Ran(out, "update") /\ out.status = 404
    /\ out.req.body = PatchOf(PatchKeys)
    /\ OutId \in deleted
    /\ OutId \notin DOMAIN store

----------------------------------------------------------------------------
(* Properties of the Item codec (SpecCodec) *)

\* C18 Codec round-trip: the stored bytes are the encoding of one of the Items,
\* and for the Item they encode, decoding them gives that Item back, each Option
\* field absent exactly when it was absent in the Item (an empty string, false
\* and zero stay present); a get answers with the encoding of that Item.
CodecRoundTrip ==
    LET bytes == store[OldKey(1)]
    IN  /\ \E item \in CodecItems : bytes = EncodeItem(item)
        /\ \A item \in CodecItems :
              bytes = EncodeItem(item) =>
                /\ Decodes(bytes)
                /\ DecodeItem(bytes) = item
                /\ \A k \in OptionalKeys : IsSome(DecodeItem(bytes)[k]) <=> IsSome(item[k])
                /\ Ran(out, "get") => (out.status = 200 /\ out.body = Json(EncodeItem(item)))

\* an Item with an empty content, completed false, due_date zero and no
\* code_location was written back by an update and read by a get
CodecRoundTripWitness ==
    /\ Ran(out, "get") /\ out.status = 200
    /\ <<OldKey(1), PatchOf({})>> \in acked
    /\ DecodeItem(store[OldKey(1)]).content = Some(<<>>)
    /\ DecodeItem(store[OldKey(1)]).completed = Some(FALSE)
    /\ DecodeItem(store[OldKey(1)]).due_date = Some(0)
    /\ DecodeItem(store[OldKey(1)]).code_location = None

----------------------------------------------------------------------------
(* Properties of every handler (SpecFrame) *)

\* C20 Single-key effect: a step changes the record of at most one key; a create
\* or capture changes only the key that is the id it returns with 201, which was
\* no key before, and nothing when it fails; an update or delete changes at most
\* the key of its path id; a get, a filter, a list and a request the gate
\* refuses change nothing.
SingleKeyEffect ==
    [][ LET changed == {k \in DOMAIN store \cup DOMAIN store' :
                           db_get(store, k) # db_get(store', k)}
        IN  /\ Cardinality(changed) <= 1
            /\ out'.req.op \in {"create", "capture"} =>
                  IF out'.status = 201
                  THEN /\ changed = {out'.body.json.o["id"].s}
                       /\ changed \cap DOMAIN store = {}
                  ELSE changed = {}
            /\ out'.req.op \in {"update", "delete"} => changed \subseteq {out'.req.id[1]}
            /\ out'.req.op \in {"get", "filter", "list"} => changed = {}
            /\ out'.status = 401 => changed = {} ]_vars

\* an update has changed the record of its path id in a store that holds
\* another item and a record that does not decode, both as they were at start
SingleKeyEffectWitness ==
    /\ Ran(out, "update") /\ out.status = 200
    /\ OutId = OldKey(1)
    /\ store[OldKey(1)] # EncodeItem(ItemA)
    /\ db_get(store, OldKey(2)) = Some(EncodeItem(ItemB))
    /\ db_get(store, PreKey) = Some(Garbage)

----------------------------------------------------------------------------
(* Properties of create_item (SpecCreate) *)

\* C11 Create persists before returning: a create answered 201 returns a record
\* whose id was not a key of the store and is not the id of the request body, whose
\* tags are those of the payload or the empty array when the payload has none, and
\* whose other fields are those of the payload (a missing one is null); the store
\* after the step is the store before plus this record under its id; and a get of
\* that id that follows directly answers 200 with the same record.
CreatePersists ==
    [][ /\ (Ran(out', "create") /\ out'.status = 201) =>
            LET payload == out'.req.body.o
                rec == out'.body.json.o
                id == rec["id"].s
            IN  /\ id \notin DOMAIN store
                /\ Has(payload, "id") => payload["id"] # rec["id"]
                /\ rec["type"] = payload["type"]
                /\ rec["title"] = payload["title"]
                /\ rec["tags"] = IF Has(payload, "tags") /\ payload["tags"] # JNull
                                 THEN payload["tags"] ELSE JArr(<<>>)
                /\ \A k \in OptionalKeys :
                      rec[k] = IF Has(payload, k) THEN payload[k] ELSE JNull
                /\ DOMAIN store' = DOMAIN store \cup {id}
                /\ store'[id] = out'.body.json
                /\ \A k \in DOMAIN store : store'[k] = store[k]
        /\ (Ran(out, "create") /\ out.status = 201 /\ Ran(out', "get")
              /\ out'.req.id = Some(out.body.json.o["id"].s)) =>
            /\ out'.status = 200
            /\ out'.body = out.body ]_vars

\* a create of a payload with an id key and without tags, into a store that holds
\* a record, was answered 201 and the get that followed returned the new record
CreatePersistsWitness ==
    /\ Ran(out, "get") /\ out.status = 200
    /\ OutId \in Uuids
    /\ OldKey(1) \in DOMAIN store
    /\ out.body.json.o["type"] = JStr(sNote)
    /\ out.body.json.o["tags"] = JArr(<<>>)
    /\ out.body.json.o["content"] = JNull

============================================================================
